---- MODULE Spec2Model ----
(***************************************************************************)
(* Model of Chapter_3/Flux_with_spatial_dependence/                        *)
(* 2_spatially_varying_flux_classic/setplot.py: the initial profile qinit, *)
(* the reference solution qtrue, the plot configuration setplot and its    *)
(* per-frame callback plot_qtrue.                                          *)
(*                                                                         *)
(* Numbers.  A float64 value is a pair <<n, d>>: a finite value is the     *)
(* rational n/d in lowest terms with d > 0, +inf is <<1, 0>>, -inf is      *)
(* <<-1, 0>> and NaN is <<0, 0>>.  Arithmetic is exact inside the finite   *)
(* range (rounding is not modelled) and follows IEEE 754 / numpy outside   *)
(* it: a magnitude above FloatMax becomes an infinity, 0*inf, inf-inf and  *)
(* 0/0 are NaN, x/0 is an infinity, and every ordered comparison with NaN  *)
(* is false.  numpy reports these with a RuntimeWarning, never with an     *)
(* exception.  Coordinates are perfect squares so that sqrt is exact.      *)
(***************************************************************************)
EXTENDS Integers, Sequences, FiniteSets, TLC

\* ------------------------------------------------------------------ bounds
\* largest finite magnitude of the number format (stands for float64 max)
FloatMax == 50
\* longest coordinate array enumerated
MaxLen == 2

\* --------------------------------------------------------------- numbers
NaN == <<0, 0>>
PosInf == <<1, 0>>
NegInf == <<-1, 0>>

Abs(i) == IF i < 0 THEN -i ELSE i

Sign(i) == IF i < 0 THEN -1 ELSE IF i > 0 THEN 1 ELSE 0

RECURSIVE GCD(_, _)
GCD(a, b) == IF b = 0 THEN a ELSE GCD(b, a % b)

\* the float nearest to the rational n/d (d > 0): exact, or an infinity on overflow
Fin(n, d) ==
    IF Abs(n) > FloatMax * d
    THEN <<Sign(n), 0>>
    ELSE LET g == GCD(Abs(n), d) IN <<n \div g, d \div g>>

Num(n, d) == Fin(n, d)

Zero == <<0, 1>>
One == <<1, 1>>

IsNaN(a) == a = NaN
IsInf(a) == a[2] = 0 /\ a[1] # 0
IsFinite(a) == a[2] # 0

Neg(a) == <<-a[1], a[2]>>

Add(a, b) ==
    IF IsNaN(a) \/ IsNaN(b) THEN NaN
    ELSE IF IsInf(a) /\ IsInf(b) THEN (IF a = b THEN a ELSE NaN)
    ELSE IF IsInf(a) THEN a
    ELSE IF IsInf(b) THEN b
    ELSE Fin(a[1] * b[2] + b[1] * a[2], a[2] * b[2])

Sub(a, b) == Add(a, Neg(b))

Mul(a, b) ==
    IF IsNaN(a) \/ IsNaN(b) THEN NaN
    ELSE IF IsInf(a) \/ IsInf(b)
         THEN (IF a[1] = 0 \/ b[1] = 0 THEN NaN ELSE <<Sign(a[1]) * Sign(b[1]), 0>>)
    ELSE Fin(a[1] * b[1], a[2] * b[2])

Div(a, b) ==
    IF IsNaN(a) \/ IsNaN(b) THEN NaN
    ELSE IF IsInf(a) THEN (IF IsInf(b) THEN NaN
                           ELSE <<a[1] * (IF b[1] < 0 THEN -1 ELSE 1), 0>>)
    ELSE IF IsInf(b) THEN Zero
    ELSE IF b[1] = 0 THEN (IF a[1] = 0 THEN NaN ELSE <<Sign(a[1]), 0>>)
    ELSE Fin(a[1] * b[2] * Sign(b[1]), a[2] * Abs(b[1]))

\* x ** 2
Pow2(a) == Mul(a, a)

\* the integer r with r * r = n (n is a perfect square)
ISqrt(n) == CHOOSE r \in 0..n : r * r = n

\* numpy.sqrt: NaN for a negative argument, exact on the squares enumerated
Sqrt(a) ==
    IF IsNaN(a) THEN NaN
    ELSE IF a = PosInf THEN PosInf
    ELSE IF a[1] < 0 THEN NaN
    ELSE <<ISqrt(a[1]), ISqrt(a[2])>>

\* a < b, false when either side is NaN
Less(a, b) ==
    IF IsNaN(a) \/ IsNaN(b) THEN FALSE
    ELSE IF IsInf(a) /\ IsInf(b) THEN a[1] < b[1]
    ELSE a[1] * b[2] < b[1] * a[2]

\* a != b, true when either side is NaN
NotEq(a, b) == IsNaN(a) \/ IsNaN(b) \/ a # b

\* numpy.exp on the non-positive arguments it is given here, by the rational
\* 1/(1 - a): 1 at 0, strictly between 0 and 1 below 0, 0 at -inf
Exp(a) ==
    IF IsNaN(a) THEN NaN
    ELSE IF a = NegInf THEN Zero
    ELSE IF a = PosInf THEN PosInf
    ELSE IF a[1] <= 0 THEN Div(One, Sub(One, a))
    ELSE Add(One, a)

\* numpy.where(cond, 1, 0) on one element
where(cond) == IF cond THEN One ELSE Zero

\* ------------------------------------------------------------------ qinit
beta == 100
x0 == Num(3, 4)
Lo == Num(1, 10)
Hi == Num(2, 5)

InInterval(x) == Less(Lo, x) /\ Less(x, Hi)

\* qinit with the second assignment to q left out: the Gaussian stays
qinit_gauss(x) ==
    Add(Exp(Neg(Mul(Num(beta, 1), Pow2(Sub(x, x0))))), where(InInterval(x)))

\* one element of qinit: the Gaussian-plus-indicator value is assigned to q
\* first and then overwritten by the indicator alone
qinit(x) ==
    LET q1 == Add(Exp(Neg(Mul(Num(beta, 1), Pow2(Sub(x, x0))))), where(InInterval(x)))
        q2 == where(InInterval(x))
    IN  q2

\* ---------------------------------------------------------------- objects
\* A Python value passed as x: kind is its type; a float or int holds its
\* value in elems[1]; a list, ndarray or tuple holds its items in elems; a
\* list of lists (nested) holds its rows in rows.  id is the identity of an
\* array object (0 for values that are not arrays).
Scalar(kind, v) == [kind |-> kind, id |-> 0, elems |-> <<v>>, rows |-> <<>>, nested |-> FALSE]

Array(kind, id, elems) == [kind |-> kind, id |-> id, elems |-> elems, rows |-> <<>>, nested |-> FALSE]

NestedList(id, rows) == [kind |-> "list", id |-> id, elems |-> <<>>, rows |-> rows, nested |-> TRUE]

Other(kind) == [kind |-> kind, id |-> 0, elems |-> <<>>, rows |-> <<>>, nested |-> FALSE]

\* outcome of a call: a returned value (a scalar in vals[1], or an array) or
\* a raised exception
Return(kind, ptype, id, vals) == [status |-> "return", exc |-> "", kind |-> kind, ptype |-> ptype, id |-> id, vals |-> vals]

Raise(exc) == [status |-> "raise", exc |-> exc, kind |-> "", ptype |-> "", id |-> 0, vals |-> <<>>]

RECURSIVE SumLen(_)
SumLen(rows) == IF rows = <<>> THEN 0 ELSE Len(Head(rows)) + SumLen(Tail(rows))

\* numpy.size(x) - 1, a loop bound one short
npsize_short(x) == (IF x.nested THEN SumLen(x.rows) ELSE Len(x.elems)) - 1

\* numpy.size(x): the total number of items
npsize(x) == IF x.nested THEN SumLen(x.rows) ELSE Len(x.elems)

\* numpy.empty((m)): a new array object whose m items are whatever the memory held
npempty(m, garbage) == [i \in 1..m |-> garbage]

\* identity of a newly allocated array: not the identity of any live array
NewId(live) == CHOOSE i \in 1..(Cardinality(live) + 1) : i \notin live

\* ------------------------------------------------------------------ qtrue
\* xm = (x-t)**2, the square root forgotten
xmOf_nosqrt(xi, t) == Pow2(Sub(xi, t))

\* xm = (np.sqrt(x)-t)**2
xmOf(xi, t) == Pow2(Sub(Sqrt(xi), t))

\* qinit(xm)/np.sqrt(x)*np.sqrt(xm)
Formula(xi, t) == Mul(Div(qinit(xmOf(xi, t)), Sqrt(xi)), Sqrt(xmOf(xi, t)))

\* the loop body without the test x[i] != 0.
ArrayElem_noguard(xi, t) ==
    LET xm == xmOf(xi, t)
    IN  Mul(Div(qinit(xm), Sqrt(xi)), Sqrt(xm))

\* body of the loop of the array branch for an item that is a number
ArrayElem(xi, t) ==
    LET xm == xmOf(xi, t)
    IN  IF NotEq(xi, Zero)
        THEN Mul(Div(qinit(xm), Sqrt(xi)), Sqrt(xm))
        ELSE Zero

\* the scalar branch without the factor np.sqrt(xm)
ScalarBranch_noscale(x, t) ==
    IF NotEq(x.elems[1], Zero)
    THEN Return("scalar", "float64", 0, <<Div(qinit(xmOf(x.elems[1], t)), Sqrt(x.elems[1]))>>)
    ELSE Return("scalar", "int", 0, <<Zero>>)

\* the scalar branch
ScalarBranch(x, t) ==
    IF NotEq(x.elems[1], Zero)
    THEN Return("scalar", "float64", 0, <<Formula(x.elems[1], t)>>)
    ELSE Return("scalar", "int", 0, <<Zero>>)

\* the loop of the array branch from index i on (1-based here); q is the
\* array under construction.  For a list of lists x[i] is a row: indexing
\* past the last row raises IndexError, row != 0. is True, and storing the
\* row's values into q[i] raises ValueError unless the row has exactly one
\* item and this numpy still converts a one-item array to a scalar.
RECURSIVE ArrayLoop(_, _, _, _, _, _)
ArrayLoop(x, t, q, i, m, strict) ==
    IF i > m THEN [exc |-> "", q |-> q]
    ELSE IF x.nested
         THEN IF i > Len(x.rows) THEN [exc |-> "IndexError", q |-> q]
              ELSE IF Len(x.rows[i]) # 1 \/ strict THEN [exc |-> "ValueError", q |-> q]
              ELSE ArrayLoop(x, t, [q EXCEPT ![i] = Formula(x.rows[i][1], t)], i + 1, m, strict)
         ELSE ArrayLoop(x, t, [q EXCEPT ![i] = ArrayElem(x.elems[i], t)], i + 1, m, strict)

\* the array branch: m, q = np.empty((m)), the loop
ArrayBranch(x, t, garbage, strict) ==
    LET m == npsize(x)
        r == ArrayLoop(x, t, npempty(m, garbage), 1, m, strict)
    IN  IF r.exc # "" THEN Raise(r.exc)
        ELSE Return("ndarray", "ndarray", NewId({x.id}), r.q)

\* qtrue computing in place: the values are stored into x and x is returned
qtrue_inplace(x, t, garbage, strict) ==
    LET r == IF x.kind \in {"ndarray", "list"} THEN ArrayBranch(x, t, garbage, strict)
             ELSE IF x.kind \in {"float", "int"} THEN ScalarBranch(x, t)
             ELSE Raise("UnboundLocalError")
    IN  IF r.status = "return" /\ r.kind = "ndarray" /\ ~x.nested
        THEN [x |-> [x EXCEPT !.elems = r.vals], ret |-> [r EXCEPT !.id = x.id]]
        ELSE [x |-> x, ret |-> r]

\* qtrue(x,t): the value of x after the call and the outcome.  garbage is
\* the content of freshly allocated memory; strict tells whether this numpy
\* refuses to store a one-item array into an array element.
qtrue(x, t, garbage, strict) ==
    [x |-> x,
     ret |-> IF x.kind \in {"ndarray", "list"} THEN ArrayBranch(x, t, garbage, strict)
             ELSE IF x.kind \in {"float", "int"} THEN ScalarBranch(x, t)
             ELSE Raise("UnboundLocalError")]

\* qinit applied to a float or to an ndarray (numpy.where gives a new array)
qinitCall(x) ==
    [x |-> x,
     ret |-> IF x.kind = "ndarray"
             THEN Return("ndarray", "ndarray", NewId({x.id}), [i \in 1..Len(x.elems) |-> qinit(x.elems[i])])
             ELSE Return("scalar", "ndarray0d", 0, <<qinit(x.elems[1])>>)]

\* ------------------------------------------------------------------ setplot
\* a ClawPlotData object on which setplot has not been called
NoPlotData ==
    [figures |-> <<>>, afteraxes |-> "", printfigs |-> FALSE, print_format |-> "",
     print_framenos |-> "", print_fignos |-> "", html |-> FALSE, html_homelink |-> "",
     latex |-> FALSE, latex_figsperline |-> 0, latex_framesperline |-> 0,
     latex_makepdf |-> FALSE]

\* the figure, its axes and its item built by setplot
Figure ==
    [name |-> "Pressure and Velocity", figno |-> 1, xlimits |-> "auto",
     ylimits |-> <<Num(-1, 2), Num(13, 10)>>, title |-> "q",
     plot_type |-> "1d_plot", plot_var |-> 0, plotstyle |-> "-o", color |-> "b"]

\* setplot(plotdata): clearfigures, one new figure, the callback, the print flags
setplot(plotdata) ==
    [plotdata EXCEPT !.figures = Append(<<>>, Figure),
                     !.afteraxes = "plot_qtrue",
                     !.printfigs = TRUE, !.print_format = "png",
                     !.print_framenos = "all", !.print_fignos = "all",
                     !.html = TRUE, !.html_homelink = "../README.html",
                     !.latex = TRUE, !.latex_figsperline = 2,
                     !.latex_framesperline = 1, !.latex_makepdf = FALSE]

\* one evaluator call as seen by its caller
Call(fn, x, t, r) == [fn |-> fn, x |-> x, t |-> t, xpost |-> r.x, ret |-> r.ret]

\* plot(x,q,'r',label='true solution'); legend()
Curve(x, q) == [xs |-> x.elems, xid |-> x.id, ys |-> q.vals, yid |-> q.id, fmt |-> "r", label |-> "true solution", legend |-> TRUE]

\* plot_qtrue evaluating qtrue a second time for the plot call
plot_qtrue_twice(current_data, garbage, strict) ==
    LET x == current_data.x
        t == current_data.t
        r == qtrue(x, t, garbage, strict)
    IN  [calls |-> <<Call("qtrue", x, t, r), Call("qtrue", x, t, r)>>,
         drawn |-> IF r.ret.status = "return" THEN <<Curve(r.x, r.ret)>> ELSE <<>>]

\* plot_qtrue(current_data): the evaluator calls it makes and the curves it
\* draws; an exception raised by qtrue propagates before anything is drawn
plot_qtrue(current_data, garbage, strict) ==
    LET x == current_data.x
        t == current_data.t
        r == qtrue(x, t, garbage, strict)
    IN  [calls |-> <<Call("qtrue", x, t, r)>>,
         drawn |-> IF r.ret.status = "return" THEN <<Curve(r.x, r.ret)>> ELSE <<>>]

\* ------------------------------------------------------------------ inputs
SeqsUpTo(S, n) == UNION {[1..k -> S] : k \in 0..n}

XVals == {Zero, Num(1, 4), Num(4, 1)}
IntVals == {Zero, One, Num(4, 1)}
TVals == {Zero, Num(1, 10), Num(5, 1), Num(20, 1)}
Garbage == {Num(7, 1), Num(-3, 1)}

Scalars == {Scalar("float", v) : v \in XVals} \cup {Scalar("int", v) : v \in IntVals}

\* the cell centres of the computational grid handed to the callback
Grid == <<Zero, Num(1, 4), Num(4, 1)>>

Arrays ==
    {Array(k, 1, s) : k \in {"list", "ndarray"}, s \in SeqsUpTo(XVals, MaxLen)}
    \cup {Array("ndarray", 1, Grid)}

Supported == Scalars \cup Arrays

Unsupported ==
    {Array("tuple", 0, <<Num(1, 4)>>), Other("str"), Other("NoneType"),
     NestedList(1, << <<>> >>),
     NestedList(1, << <<Num(1, 4)>>, <<Num(4, 1)>> >>),
     NestedList(1, << <<Num(1, 4), Num(4, 1)>> >>)}

QVals == {Num(1, 20), Num(1, 10), Num(1, 5), Num(7, 20), Num(2, 5), Num(1, 2), Num(3, 4)}

QinitInputs ==
    {Scalar("float", v) : v \in QVals}
    \cup {Array("ndarray", 1, <<Num(1, 20), Num(1, 5), Num(7, 20), Num(2, 5), Num(1, 2)>>),
          Array("ndarray", 1, <<Num(1, 10), Num(3, 4)>>)}

Frames == {[x |-> Array("ndarray", 1, Grid), t |-> t] : t \in TVals}

\* the numpy releases the call may run on, told apart by the one behaviour
\* that differs here: storing a one-item array into an array element (only a
\* list of lists gets there)
Builds(x) == IF x.nested THEN BOOLEAN ELSE {FALSE}

\* ------------------------------------------------------------------- state
\* probdata: the parameters read from setprob.data at import
\* plotdata: the ClawPlotData object of the plotting routines
\* op:       the operation performed last and its arguments
\* calls:    the evaluator calls made by that operation, in order
\* frame:    the frame drawn last: its coordinates, its time, the curves
\*           the callback drew on its axes
VARIABLES probdata, plotdata, op, calls, frame

vars == <<probdata, plotdata, op, calls, frame>>

Op(name, x, t) == [name |-> name, x |-> x, t |-> t]

\* after the module is imported: setprob.data has been read, nothing is
\* configured and nothing has been evaluated or drawn
Init ==
    /\ probdata \in {[u |-> 1, beta |-> 1]}
    /\ plotdata = NoPlotData
    /\ op = Op("import", Other("NoneType"), Zero)
    /\ calls = <<>>
    /\ frame = [x |-> Other("NoneType"), t |-> Zero, drawn |-> <<>>]

\* a caller evaluates qtrue(x, t)
CallQtrue ==
    \E x \in Supported \cup Unsupported, t \in TVals, g \in Garbage :
      \E strict \in Builds(x) :
        /\ op' = Op("qtrue", x, t)
        /\ calls' = <<Call("qtrue", x, t, qtrue(x, t, g, strict))>>
        /\ UNCHANGED <<probdata, plotdata, frame>>

\* a caller evaluates qinit(x)
CallQinit ==
    \E x \in QinitInputs :
        /\ op' = Op("qinit", x, Zero)
        /\ calls' = <<Call("qinit", x, Zero, qinitCall(x))>>
        /\ UNCHANGED <<probdata, plotdata, frame>>

\* the plotting routines call setplot on their plot data
SetPlot ==
    /\ plotdata' = setplot(plotdata)
    /\ op' = Op("setplot", Other("NoneType"), Zero)
    /\ calls' = <<>>
    /\ UNCHANGED <<probdata, frame>>

\* the plotting routines draw a frame and invoke the afteraxes callback
PlotFrame ==
    /\ plotdata.afteraxes = "plot_qtrue"
    /\ \E cd \in Frames, g \in Garbage :
      \E strict \in Builds(cd.x) :
        LET r == plot_qtrue(cd, g, strict)
        IN  /\ op' = Op("plot_qtrue", cd.x, cd.t)
            /\ calls' = r.calls
            /\ frame' = [x |-> cd.x, t |-> cd.t, drawn |-> r.drawn]
    /\ UNCHANGED <<probdata, plotdata>>

Next == CallQtrue \/ CallQinit \/ SetPlot \/ PlotFrame

Spec == Init /\ [][Next]_vars

\* ------------------------------------------------------------- properties
\* x is a float, an int, or a list or ndarray of numbers
IsSupported(x) == x.kind \in {"float", "int"} \/ (x.kind \in {"list", "ndarray"} /\ ~x.nested)

IsArray(x) == x.kind \in {"list", "ndarray"} /\ ~x.nested

\* the evaluator calls of the last operation that went to qtrue with a supported x
QtrueCalls == {k \in 1..Len(calls) : calls[k].fn = "qtrue" /\ IsSupported(calls[k].x)}

\* == on floats: false when either side is NaN
IeeeEq(a, b) == ~IsNaN(a) /\ ~IsNaN(b) /\ a = b

\* |a|
AbsNum(a) == <<Abs(a[1]), a[2]>>

\* 1 when 0.1 < a < 0.4 and 0 otherwise, for a finite a, by cross-multiplication
Indicator(a) == IF 10 * a[1] > a[2] /\ 5 * a[1] < 2 * a[2] THEN One ELSE Zero

\* C1: every call qtrue(x, t) with a supported x returns, and returns 0 at
\* every position whose coordinate is 0 (the scalar x = 0 included), for
\* every t and whatever the other coordinates are.
C1_ZeroAtOrigin ==
    \A k \in QtrueCalls :
        LET c == calls[k]
        IN  /\ c.ret.status = "return"
            /\ Len(c.ret.vals) = Len(c.x.elems)
            /\ \A i \in 1..Len(c.x.elems) : c.x.elems[i] = Zero => c.ret.vals[i] = Zero

\* a list [.., 0, .., x, ..] with x # 0 evaluated at t > 0 gave 0 at the
\* origin and a non-zero value elsewhere
C1_Witness ==
    \E k \in QtrueCalls :
        LET c == calls[k]
        IN  /\ IsArray(c.x) /\ c.t # Zero /\ c.ret.status = "return"
            /\ \E i, j \in 1..Len(c.x.elems) :
                  /\ c.x.elems[i] = Zero /\ c.ret.vals[i] = Zero
                  /\ c.x.elems[j] # Zero /\ c.ret.vals[j] # Zero

\* C2 (as stated): for every coordinate x # 0 and every t the value returned
\* by qtrue equals qinit((sqrt(x)-t)^2) / sqrt(x) * |sqrt(x) - t|.
C2_Original ==
    \A k \in QtrueCalls :
        LET c == calls[k]
        IN  /\ c.ret.status = "return"
            /\ \A i \in 1..Len(c.x.elems) :
                  LET xi == c.x.elems[i]
                      r == Sqrt(xi)
                  IN  xi # Zero =>
                        IeeeEq(c.ret.vals[i],
                               Mul(Div(qinit(Pow2(Sub(r, c.t))), r), AbsNum(Sub(r, c.t))))

\* C3: qinit is the indicator of the open interval (0.1, 0.4): every value it
\* returns is 1 where 0.1 < x < 0.4 and 0 elsewhere, 0.1 and 0.4 included,
\* so the Gaussian term never shows in the result.
C3_QinitIsIndicator ==
    \A k \in 1..Len(calls) :
        LET c == calls[k]
        IN  c.fn = "qinit" =>
              /\ c.ret.status = "return"
              /\ Len(c.ret.vals) = Len(c.x.elems)
              /\ \A i \in 1..Len(c.x.elems) : c.ret.vals[i] = Indicator(c.x.elems[i])

\* qinit([0.05, 0.2, 0.35, 0.4, 0.5]) returned [0, 1, 1, 0, 0]
C3_Witness ==
    \E k \in 1..Len(calls) :
        /\ calls[k].fn = "qinit"
        /\ calls[k].x.elems = <<Num(1, 20), Num(1, 5), Num(7, 20), Num(2, 5), Num(1, 2)>>
        /\ calls[k].ret.vals = <<Zero, One, One, Zero, Zero>>

\* C4: qtrue keeps the shape of x: a list or ndarray of n numbers (n = 0
\* included) gives an ndarray of n values, a float or an int gives a scalar.
C4_ShapePreserved ==
    \A k \in QtrueCalls :
        LET c == calls[k]
        IN  /\ c.ret.status = "return"
            /\ IsArray(c.x) => c.ret.kind = "ndarray" /\ Len(c.ret.vals) = Len(c.x.elems)
            /\ ~IsArray(c.x) => c.ret.kind = "scalar" /\ Len(c.ret.vals) = 1

\* a list of MaxLen numbers gave an ndarray of MaxLen values
C4_Witness ==
    \E k \in QtrueCalls :
        /\ calls[k].x.kind = "list" /\ Len(calls[k].x.elems) = MaxLen
        /\ calls[k].ret.kind = "ndarray" /\ Len(calls[k].ret.vals) = MaxLen

\* C5 (as stated): a call of qtrue with an x that is neither a number nor a
\* list or ndarray of numbers raises and returns no value.
C5_Original ==
    \A k \in 1..Len(calls) :
        (calls[k].fn = "qtrue" /\ ~IsSupported(calls[k].x)) => calls[k].ret.status = "raise"

\* C6 (as stated): for finite coordinates x >= 0 and a finite t >= 0, qtrue
\* raises nothing and every value it returns is finite.
C6_Original ==
    \A k \in QtrueCalls :
        LET c == calls[k]
        IN  (/\ IsFinite(c.t) /\ c.t[1] >= 0
             /\ \A i \in 1..Len(c.x.elems) : IsFinite(c.x.elems[i]) /\ c.x.elems[i][1] >= 0)
            => /\ c.ret.status = "return"
               /\ \A i \in 1..Len(c.ret.vals) : IsFinite(c.ret.vals[i])

\* C7: qtrue and qinit have no side effects.  In every step probdata keeps
\* its value; every evaluator call leaves x as it was, item for item; an
\* array it returns is a new object, not x; and a call with the (x, t) of an
\* earlier call on a number or an array of numbers (the one just before, or the one that drew the current
\* frame however many calls ago) returns the same values.
C7_NoSideEffects ==
    [][/\ probdata' = probdata
       /\ \A k \in 1..Len(calls') :
             LET c == calls'[k]
             IN  /\ c.xpost = c.x
                 /\ c.ret.kind = "ndarray" => c.ret.id # c.x.id
                 /\ (c.fn = "qtrue" /\ frame.drawn # <<>> /\ c.x = frame.x /\ c.t = frame.t)
                      => c.ret.vals = frame.drawn[1].ys
                 /\ (k <= Len(calls) /\ IsSupported(c.x)
                        /\ calls[k].fn = c.fn /\ calls[k].x = c.x /\ calls[k].t = c.t)
                      => c.ret = calls[k].ret]_vars

\* a direct call qtrue(x, 0.1) on the grid of the frame drawn earlier at
\* t = 0.1 returned a new array holding the values of the curve on the axes
C7_Witness ==
    /\ op.name = "qtrue" /\ Len(calls) = 1
    /\ frame.drawn # <<>> /\ frame.t = Num(1, 10)
    /\ calls[1].x = frame.x /\ calls[1].t = frame.t
    /\ calls[1].xpost = calls[1].x
    /\ calls[1].ret.id # calls[1].x.id
    /\ calls[1].ret.vals = frame.drawn[1].ys

C9_CallbackOncePerFrame ==
    op.name = "plot_qtrue" =>
        /\ plotdata.afteraxes = "plot_qtrue"
        /\ Len(calls) = 1
        /\ calls[1].fn = "qtrue" /\ calls[1].x = op.x /\ calls[1].t = op.t
        /\ frame.x = op.x /\ frame.t = op.t
        /\ frame.drawn = <<[xs |-> op.x.elems, xid |-> op.x.id,
                            ys |-> calls[1].ret.vals, yid |-> calls[1].ret.id,
                            fmt |-> "r", label |-> "true solution", legend |-> TRUE]>>
        /\ Len(frame.drawn[1].ys) = Len(op.x.elems)
        /\ \A i \in 1..Len(op.x.elems) : frame.drawn[1].ys[i] = ArrayElem(op.x.elems[i], op.t)

\* the callback drew the frame at t = 0.1 over the grid [0, 0.25, 4]: the
\* curve [0, 0.8, 0]
C9_Witness ==
    /\ op.name = "plot_qtrue" /\ op.t = Num(1, 10)
    /\ Len(frame.drawn) = 1
    /\ frame.drawn[1].xs = Grid
    /\ frame.drawn[1].ys = <<Zero, Num(4, 5), Zero>>
    /\ frame.drawn[1].label = "true solution"

\* C10: the array branch and the scalar branch of qtrue compute the same
\* function: item i of qtrue(x, t) for a list or ndarray x is the value of
\* qtrue(x[i], t) for the scalar x[i] (both NaN counts as the same value),
\* whatever the other items of x are.
C10_BranchesAgree ==
    \A k \in QtrueCalls :
        LET c == calls[k]
        IN  IsArray(c.x) =>
              /\ c.ret.status = "return"
              /\ Len(c.ret.vals) = Len(c.x.elems)
              /\ \A i \in 1..Len(c.x.elems) :
                    LET s == ScalarBranch(Scalar("float", c.x.elems[i]), c.t)
                    IN  s.status = "return" /\ c.ret.vals[i] = s.vals[1]

\* an array with two different coordinates evaluated at t = 0.1 holds 0.8,
\* the scalar value of qtrue(0.25, 0.1), next to another value
C10_Witness ==
    \E k \in QtrueCalls :
        LET c == calls[k]
        IN  /\ IsArray(c.x) /\ c.t = Num(1, 10) /\ Len(c.x.elems) >= 2
            /\ \E i, j \in 1..Len(c.x.elems) :
                  /\ c.x.elems[i] = Num(1, 4) /\ c.ret.vals[i] = Num(4, 5)
                  /\ c.x.elems[j] # c.x.elems[i] /\ c.ret.vals[j] # c.ret.vals[i]

====
